---- MODULE Spec2Model ----
(***************************************************************************)
(* Expense Management API (src/core): the relational store declared in     *)
(* models.py, the pydantic validators of schemas.py and the request        *)
(* handlers of main.py, each handler with the unit-of-work flush and the   *)
(* commit that end it.                                                      *)
(*                                                                         *)
(* Encoding.  A Python Optional value is a set: None is {} and the value v *)
(* is {v}.  A str is a tuple of one-character strings, so that lower() and *)
(* LIKE are computed character by character.  A Decimal amount is an       *)
(* integer number of cents, a date is a day number, a timestamp is the     *)
(* value of the clock `now`.  A table is a function from the primary keys  *)
(* of its rows to the rows.                                                *)
(***************************************************************************)
EXTENDS Integers, Sequences, FiniteSets, TLC

VARIABLES db, fk_enforced, now, req, resp, sess

vars == <<db, fk_enforced, now, req, resp, sess>>

\* Number of requests served in one behaviour (the clock stops there).
MaxClock == 2

---------------------------------------------------------------------------
\* Optional values and Python truthiness

None == {}

Some(v) == {v}

Val(o) == CHOOSE v \in o : TRUE

\* `if x:` on an Optional[int]: None and 0 are falsy
TruthyInt(o) == o # None /\ o # Some(0)

\* `if q:` on an Optional[str]: None and '' are falsy
TruthyStr(o) == o # None /\ o # Some(<<>>)

---------------------------------------------------------------------------
\* Strings

UpperAlpha == <<"A","B","C","D","E","F","G","H","I","J","K","L","M",
                "N","O","P","Q","R","S","T","U","V","W","X","Y","Z">>

LowerAlpha == <<"a","b","c","d","e","f","g","h","i","j","k","l","m",
                "n","o","p","q","r","s","t","u","v","w","x","y","z">>

LowerChar(c) ==
    IF \E i \in DOMAIN UpperAlpha : UpperAlpha[i] = c
    THEN LowerAlpha[CHOOSE i \in DOMAIN UpperAlpha : UpperAlpha[i] = c]
    ELSE c

\* str.lower()
Lower(s) == [i \in DOMAIN s |-> LowerChar(s[i])]

\* SQL LIKE: % matches any run of characters, _ any one character
RECURSIVE LikeMatch(_, _)
LikeMatch(p, s) ==
    IF p = <<>> THEN s = <<>>
    ELSE IF Head(p) = "%"
         THEN LikeMatch(Tail(p), s) \/ (s # <<>> /\ LikeMatch(p, Tail(s)))
         ELSE /\ s # <<>>
              /\ (Head(p) = "_" \/ Head(p) = Head(s))
              /\ LikeMatch(Tail(p), Tail(s))

\* Column.ilike(f'%{q}%') on a non-null column value
ilike(col, q) == LikeMatch(<<"%">> \o Lower(q) \o <<"%">>, Lower(col))

---------------------------------------------------------------------------
\* Tables

Max(S) == CHOOSE m \in S : \A x \in S : x <= m

\* Integer primary key assigned by the store on insert
NextId(table) == IF DOMAIN table = {} THEN 1 ELSE Max(DOMAIN table) + 1

Insert(table, id, row) ==
    [i \in DOMAIN table \cup {id} |-> IF i = id THEN row ELSE table[i]]

Remove(table, ids) == [i \in DOMAIN table \ ids |-> table[i]]

\* model_dump() of a create schema: every declared field, unset ones at
\* their default
Dump(payload, defaults) ==
    [k \in DOMAIN defaults |->
        IF k \in DOMAIN payload THEN payload[k] ELSE defaults[k]]

\* SetAttrs over model_dump() without exclude_unset: a nullable column the
\* payload omits is set to the default None of its schema field
SetAttrsUnset(row, update_data) ==
    [k \in DOMAIN row |->
        IF k \in DOMAIN update_data THEN update_data[k]
        ELSE IF k \in {"description", "icon", "color", "is_active",
                       "category_id", "receipt_image"} THEN None
        ELSE row[k]]

\* for key, value in update_data.items(): setattr(row, key, value), where
\* update_data = model_dump(exclude_unset=True) holds the supplied fields only
SetAttrs(row, update_data) ==
    [k \in DOMAIN row |->
        IF k \in DOMAIN update_data THEN update_data[k] ELSE row[k]]

Exclude(payload, keys) == [k \in DOMAIN payload \ keys |-> payload[k]]

EmptyTable == [i \in {} |-> {}]

---------------------------------------------------------------------------
\* Relationships of models.py, as the loads the unit of work performs

\* Category.expenses / Category.budgets
Category_expenses(s, id) ==
    {e \in DOMAIN s.expenses : s.expenses[e].category_id = Some(id)}

Category_budgets(s, id) ==
    {b \in DOMAIN s.budgets : s.budgets[b].category_id = Some(id)}

\* User.expenses / User.budgets
User_expenses(s, id) ==
    {e \in DOMAIN s.expenses : s.expenses[e].user_id = id}

User_budgets(s, id) ==
    {b \in DOMAIN s.budgets : s.budgets[b].user_id = id}

\* Expense.tags / Tag.expenses through the expense_tags association table
Expense_tags(s, id) == {p[2] : p \in {x \in DOMAIN s.expense_tags : x[1] = id}}

Tag_expenses(s, id) == {p[1] : p \in {x \in DOMAIN s.expense_tags : x[2] = id}}

---------------------------------------------------------------------------
\* Constraints the store checks when a transaction commits

\* Column(..., unique=True)
Unique(table, col) ==
    \A i, j \in DOMAIN table : i # j => table[i][col] # table[j][col]

\* Column(..., nullable=False)
NotNull(table, col) == \A i \in DOMAIN table : table[i][col] # None

\* UniqueOK with unique=True missing on Category.name and Tag.name
UniqueOKUsersOnly(s) ==
    /\ Unique(s.users, "username")
    /\ Unique(s.users, "email")

\* UniqueOK with unique=True missing on User.username
UniqueOKNoUsername(s) ==
    /\ Unique(s.users, "email")
    /\ Unique(s.categories, "name")
    /\ Unique(s.tags, "name")

UniqueOK(s) ==
    /\ Unique(s.users, "username")
    /\ Unique(s.users, "email")
    /\ Unique(s.categories, "name")
    /\ Unique(s.tags, "name")

NotNullOK(s) ==
    /\ NotNull(s.users, "username") /\ NotNull(s.users, "email")
    /\ NotNull(s.categories, "name")
    /\ NotNull(s.tags, "name")
    /\ NotNull(s.expenses, "description") /\ NotNull(s.expenses, "amount")
    /\ NotNull(s.expenses, "expense_date")
    /\ NotNull(s.budgets, "amount") /\ NotNull(s.budgets, "period")
    /\ NotNull(s.budgets, "start_date")

\* ForeignKey(...) columns
ForeignKeysOK(s) ==
    /\ \A e \in DOMAIN s.expenses :
          /\ s.expenses[e].user_id \in DOMAIN s.users
          /\ s.expenses[e].category_id \subseteq DOMAIN s.categories
    /\ \A b \in DOMAIN s.budgets :
          /\ s.budgets[b].user_id \in DOMAIN s.users
          /\ s.budgets[b].category_id \subseteq DOMAIN s.categories
    /\ \A p \in DOMAIN s.expense_tags :
          p[1] \in DOMAIN s.expenses /\ p[2] \in DOMAIN s.tags

\* The engine of the default DATABASE_URL (SQLite) does not enforce foreign
\* keys, the engines of other URLs do: fk_enforced is fixed by the deployment.
IntegrityOK(s) ==
    UniqueOK(s) /\ NotNullOK(s) /\ (fk_enforced => ForeignKeysOK(s))

---------------------------------------------------------------------------
\* One request: the handler runs to its return or to the exception that ends
\* it, get_db closes the session, and the clock moves on.

\* the process is serving requests
Serving == now <= MaxClock

Rows(ids) == [kind |-> "rows", ids |-> ids]

Row(id, row) == [kind |-> "row", id |-> id, row |-> row]

Detail(d) == [kind |-> "detail", detail |-> d]

\* raise HTTPException(...) or a validation error: nothing was flushed
Fail(r, status, detail) ==
    /\ req' = r
    /\ resp' = [status |-> status, body |-> Detail(detail)]
    /\ db' = db
    /\ now' = now + 1
    /\ UNCHANGED <<fk_enforced, sess>>

\* a read that returns
Return(r, status, body) ==
    /\ req' = r
    /\ resp' = [status |-> status, body |-> body]
    /\ db' = db
    /\ now' = now + 1
    /\ UNCHANGED <<fk_enforced, sess>>

\* db.commit() of the pending state s; an IntegrityError propagates as a
\* server error and the session is closed without having written anything
Commit(r, s, status, body) ==
    /\ req' = r
    /\ IF IntegrityOK(s)
       THEN db' = s /\ resp' = [status |-> status, body |-> body]
       ELSE db' = db /\ resp' = [status |-> 500, body |-> Detail("IntegrityError")]
    /\ now' = now + 1
    /\ UNCHANGED <<fk_enforced, sess>>

---------------------------------------------------------------------------
\* Category endpoints

CategoryDefaults == [name |-> None, description |-> None, icon |-> None, color |-> None]

get_categories(q) ==
    /\ Serving
    /\ LET r == [op |-> "get_categories", q |-> q]
           categories == {c \in DOMAIN db.categories :
                             TruthyStr(q) => ilike(Val(db.categories[c].name), Val(q))}
       IN  IF TruthyStr(q) /\ categories = {}
           THEN Fail(r, 404, "No category found")
           ELSE Return(r, 200, Rows(categories))

\* create_category without its pre-check query
create_category_unchecked(category) ==
    /\ Serving
    /\ LET r == [op |-> "create_category", payload |-> category]
           id == NextId(db.categories)
           db_category == Dump(category, CategoryDefaults)
       IN  Commit(r, [db EXCEPT !.categories = Insert(@, id, db_category)],
                  201, Row(id, db_category))

create_category(category) ==
    /\ Serving
    /\ LET r == [op |-> "create_category", payload |-> category]
           existing == {c \in DOMAIN db.categories : db.categories[c].name = category.name}
           id == NextId(db.categories)
           db_category == Dump(category, CategoryDefaults)
       IN  IF existing # {}
           THEN Fail(r, 400, "Category name already exists")
           ELSE Commit(r, [db EXCEPT !.categories = Insert(@, id, db_category)],
                       201, Row(id, db_category))

get_category(category_id) ==
    /\ Serving
    /\ LET r == [op |-> "get_category", id |-> category_id]
       IN  IF category_id \notin DOMAIN db.categories
           THEN Fail(r, 404, "Category not found")
           ELSE Return(r, 200, Row(category_id, db.categories[category_id]))

update_category(category_id, category) ==
    /\ Serving
    /\ LET r == [op |-> "update_category", id |-> category_id, payload |-> category]
       IN  IF category_id \notin DOMAIN db.categories
           THEN Fail(r, 404, "Category not found")
           ELSE LET db_category == SetAttrs(db.categories[category_id], category)
                IN  Commit(r, [db EXCEPT !.categories[category_id] = db_category],
                           200, Row(category_id, db_category))

\* FlushDeleteCategory as it would be with cascade="all, delete-orphan" on
\* Category.expenses: the expenses and their tag rows are deleted
FlushDeleteCategoryCascade(s, id) ==
    [s EXCEPT
       !.expense_tags = [p \in {x \in DOMAIN @ : x[1] \notin Category_expenses(s, id)} |-> @[p]],
       !.expenses = Remove(@, Category_expenses(s, id)),
       !.budgets = [b \in DOMAIN @ |->
                        IF b \in Category_budgets(s, id)
                        THEN [@[b] EXCEPT !.category_id = None]
                        ELSE @[b]],
       !.categories = Remove(@, {id})]

\* The flush of db.delete(db_category): the rows of Category.expenses and of
\* Category.budgets (relationships without a delete cascade) are
\* de-associated by an UPDATE that sets their category_id to NULL, then the
\* category row is deleted.  The UPDATE of an expense fires onupdate.
FlushDeleteCategory(s, id) ==
    [s EXCEPT
       !.expenses = [e \in DOMAIN @ |->
                        IF e \in Category_expenses(s, id)
                        THEN [@[e] EXCEPT !.category_id = None, !.updated_at = now]
                        ELSE @[e]],
       !.budgets = [b \in DOMAIN @ |->
                        IF b \in Category_budgets(s, id)
                        THEN [@[b] EXCEPT !.category_id = None]
                        ELSE @[b]],
       !.categories = Remove(@, {id})]

delete_category(category_id) ==
    /\ Serving
    /\ LET r == [op |-> "delete_category", id |-> category_id]
       IN  IF category_id \notin DOMAIN db.categories
           THEN Fail(r, 404, "Category not found")
           ELSE Commit(r, FlushDeleteCategory(db, category_id),
                       200, Detail("Category removed successfully"))

---------------------------------------------------------------------------
\* Tag endpoints

TagDefaults == [name |-> None, color |-> None]

get_tags(q) ==
    /\ Serving
    /\ LET r == [op |-> "get_tags", q |-> q]
           tags_ == {t \in DOMAIN db.tags :
                        TruthyStr(q) => ilike(Val(db.tags[t].name), Val(q))}
       IN  Return(r, 200, Rows(tags_))

create_tag(tag) ==
    /\ Serving
    /\ LET r == [op |-> "create_tag", payload |-> tag]
           existing == {t \in DOMAIN db.tags : db.tags[t].name = tag.name}
           id == NextId(db.tags)
           db_tag == Dump(tag, TagDefaults)
       IN  IF existing # {}
           THEN Fail(r, 400, "Tag name already exists")
           ELSE Commit(r, [db EXCEPT !.tags = Insert(@, id, db_tag)],
                       201, Row(id, db_tag))

get_tag(tag_id) ==
    /\ Serving
    /\ LET r == [op |-> "get_tag", id |-> tag_id]
       IN  IF tag_id \notin DOMAIN db.tags
           THEN Fail(r, 404, "Tag not found")
           ELSE Return(r, 200, Row(tag_id, db.tags[tag_id]))

update_tag(tag_id, tag) ==
    /\ Serving
    /\ LET r == [op |-> "update_tag", id |-> tag_id, payload |-> tag]
       IN  IF tag_id \notin DOMAIN db.tags
           THEN Fail(r, 404, "Tag not found")
           ELSE LET db_tag == SetAttrs(db.tags[tag_id], tag)
                IN  Commit(r, [db EXCEPT !.tags[tag_id] = db_tag],
                           200, Row(tag_id, db_tag))

\* FlushDeleteTag that deletes the tag row and leaves the rows of the
\* secondary table to the store
FlushDeleteTagOnly(s, id) == [s EXCEPT !.tags = Remove(@, {id})]

\* The flush of db.delete(db_tag): the rows of the secondary table that carry
\* the tag are deleted, then the tag row
FlushDeleteTag(s, id) ==
    [s EXCEPT
       !.expense_tags = [p \in {x \in DOMAIN @ : x[2] # id} |-> @[p]],
       !.tags = Remove(@, {id})]

delete_tag(tag_id) ==
    /\ Serving
    /\ LET r == [op |-> "delete_tag", id |-> tag_id]
       IN  IF tag_id \notin DOMAIN db.tags
           THEN Fail(r, 404, "Tag not found")
           ELSE Commit(r, FlushDeleteTag(db, tag_id),
                       200, Detail("Tag removed successfully"))

---------------------------------------------------------------------------
\* User endpoints

get_users(q) ==
    /\ Serving
    /\ LET r == [op |-> "get_users", q |-> q]
           users_ == {u \in DOMAIN db.users :
                         TruthyStr(q) => ilike(Val(db.users[u].username), Val(q))}
       IN  Return(r, 200, Rows(users_))

\* User(username=..., email=..., hashed_password=user.password); is_active
\* takes the column default, created_at the server default
NewUser(user) ==
    [username |-> user.username, email |-> user.email,
     hashed_password |-> user.password, is_active |-> Some(TRUE),
     created_at |-> now]

\* db.query(User).filter(User.username == user.username).first()
existing_username(user) ==
    {u \in DOMAIN db.users : db.users[u].username = user.username}

\* db.query(User).filter(User.email == user.email).first()
existing_email(user) ==
    {u \in DOMAIN db.users : db.users[u].email = user.email}

create_user(user) ==
    /\ Serving
    /\ LET r == [op |-> "create_user", payload |-> user]
           id == NextId(db.users)
           db_user == NewUser(user)
       IN  IF existing_username(user) # {}
           THEN Fail(r, 400, "Username already exists")
           ELSE IF existing_email(user) # {}
           THEN Fail(r, 400, "Email already exists")
           ELSE Commit(r, [db EXCEPT !.users = Insert(@, id, db_user)],
                       201, Row(id, db_user))

get_user(user_id) ==
    /\ Serving
    /\ LET r == [op |-> "get_user", id |-> user_id]
       IN  IF user_id \notin DOMAIN db.users
           THEN Fail(r, 404, "User not found")
           ELSE Return(r, 200, Row(user_id, db.users[user_id]))

update_user(user_id, user) ==
    /\ Serving
    /\ LET r == [op |-> "update_user", id |-> user_id, payload |-> user]
       IN  IF user_id \notin DOMAIN db.users
           THEN Fail(r, 404, "User not found")
           ELSE LET db_user == SetAttrs(db.users[user_id], user)
                IN  Commit(r, [db EXCEPT !.users[user_id] = db_user],
                           200, Row(user_id, db_user))

\* FlushDeleteUser as it would be without the cascade on User.budgets: the
\* budgets of the user are left behind
FlushDeleteUserKeepBudgets(s, id) ==
    [s EXCEPT
       !.expense_tags = [p \in {x \in DOMAIN @ : x[1] \notin User_expenses(s, id)} |-> @[p]],
       !.expenses = Remove(@, User_expenses(s, id)),
       !.users = Remove(@, {id})]

\* The flush of db.delete(db_user): User.expenses and User.budgets carry
\* cascade="all, delete-orphan", so their rows are deleted, each expense with
\* its rows of the secondary table, then the user row
FlushDeleteUser(s, id) ==
    [s EXCEPT
       !.expense_tags = [p \in {x \in DOMAIN @ : x[1] \notin User_expenses(s, id)} |-> @[p]],
       !.expenses = Remove(@, User_expenses(s, id)),
       !.budgets = Remove(@, User_budgets(s, id)),
       !.users = Remove(@, {id})]

delete_user(user_id) ==
    /\ Serving
    /\ LET r == [op |-> "delete_user", id |-> user_id]
       IN  IF user_id \notin DOMAIN db.users
           THEN Fail(r, 404, "User not found")
           ELSE Commit(r, FlushDeleteUser(db, user_id),
                       200, Detail("User removed successfully"))

---------------------------------------------------------------------------
\* Expense endpoints

Range(seq) == {seq[i] : i \in DOMAIN seq}

ExpenseDefaults ==
    [description |-> None, amount |-> None, category_id |-> None,
     expense_date |-> None, receipt_image |-> None, tag_ids |-> None]

\* Field(gt=0) on an amount that is supplied and not None
AmountValid(payload) ==
    ("amount" \in DOMAIN payload /\ payload.amount # None) => Val(payload.amount) > 0

get_expenses(q, category_id, user_id, start_date, end_date) ==
    /\ Serving
    /\ LET r == [op |-> "get_expenses", q |-> q, category_id |-> category_id,
                 user_id |-> user_id, start_date |-> start_date, end_date |-> end_date]
           expenses_ ==
               {e \in DOMAIN db.expenses :
                   /\ TruthyStr(q) => ilike(Val(db.expenses[e].description), Val(q))
                   /\ TruthyInt(category_id) => db.expenses[e].category_id = category_id
                   /\ TruthyInt(user_id) => db.expenses[e].user_id = Val(user_id)
                   /\ start_date # None => Val(db.expenses[e].expense_date) >= Val(start_date)
                   /\ end_date # None => Val(db.expenses[e].expense_date) <= Val(end_date)}
       IN  IF TruthyStr(q) /\ expenses_ = {}
           THEN Fail(r, 404, "No expense found with that description")
           ELSE Return(r, 200, Rows(expenses_))

\* tags = db.query(Tag).filter(Tag.id.in_(tag_ids)).all()
TagsIn(tag_ids) == {t \in DOMAIN db.tags : t \in Range(tag_ids)}

\* TagsFound accepting a partial match
TagsFoundSome(tag_ids) == TagsIn(tag_ids) # {}

\* if len(tags) != len(tag_ids): raise 404
TagsFound(tag_ids) == Cardinality(TagsIn(tag_ids)) = Len(tag_ids)

\* Expense(**expense_data, user_id=user_id) with its server defaults
NewExpense(expense, user_id) ==
    LET expense_data == Exclude(Dump(expense, ExpenseDefaults), {"tag_ids"})
    IN  [user_id |-> user_id,
         category_id |-> expense_data.category_id,
         description |-> expense_data.description,
         amount |-> expense_data.amount,
         expense_date |-> expense_data.expense_date,
         receipt_image |-> expense_data.receipt_image,
         created_at |-> now, updated_at |-> now]

\* The rows of expense_tags after `db_expense.tags = tags` is flushed: pairs
\* no longer in the collection are deleted, new pairs inserted
SetTags(assoc, id, tags_) ==
    LET keep == {p \in DOMAIN assoc : p[1] # id \/ p[2] \in tags_}
        all == keep \cup {<<id, t>> : t \in tags_}
    IN  [p \in all |-> IF p \in DOMAIN assoc THEN assoc[p] ELSE now]

create_expense(expense, user_id) ==
    /\ Serving
    /\ LET r == [op |-> "create_expense", payload |-> expense, user_id |-> user_id]
           dumped == Dump(expense, ExpenseDefaults)
           tag_ids == IF dumped.tag_ids = None THEN <<>> ELSE Val(dumped.tag_ids)
           id == NextId(db.expenses)
           db_expense == NewExpense(expense, user_id)
       IN  IF ~AmountValid(expense)
           THEN Fail(r, 422, "amount")
           ELSE IF user_id \notin DOMAIN db.users
           THEN Fail(r, 404, "User not found")
           ELSE IF TruthyInt(dumped.category_id) /\ Val(dumped.category_id) \notin DOMAIN db.categories
           THEN Fail(r, 404, "Category not found")
           ELSE IF tag_ids # <<>> /\ ~TagsFound(tag_ids)
           THEN Fail(r, 404, "One or more tags not found")
           ELSE Commit(r, [db EXCEPT !.expenses = Insert(@, id, db_expense),
                                     !.expense_tags = SetTags(@, id, TagsIn(tag_ids))],
                       201, Row(id, db_expense))

get_expense(expense_id) ==
    /\ Serving
    /\ LET r == [op |-> "get_expense", id |-> expense_id]
       IN  IF expense_id \notin DOMAIN db.expenses
           THEN Fail(r, 404, "Expense not found")
           ELSE Return(r, 200, Row(expense_id, db.expenses[expense_id]))

\* The UPDATE the flush emits for a row whose columns changed; it fires
\* onupdate=func.now() of updated_at.  A row with no net change is not written.
FlushExpense(old, new) ==
    IF new # old THEN [new EXCEPT !.updated_at = now] ELSE old

\* the assignments written to the database before the tags are looked up
update_expense_commit_first(expense_id, expense) ==
    /\ Serving
    /\ LET r == [op |-> "update_expense", id |-> expense_id, payload |-> expense]
           update_data == Exclude(expense, {"tag_ids"})
           tags_given == "tag_ids" \in DOMAIN expense /\ expense.tag_ids # None
       IN  IF ~AmountValid(expense)
           THEN Fail(r, 422, "amount")
           ELSE IF expense_id \notin DOMAIN db.expenses
           THEN Fail(r, 404, "Expense not found")
           ELSE LET db_expense == FlushExpense(db.expenses[expense_id],
                                      SetAttrs(db.expenses[expense_id], update_data))
                    assoc == IF tags_given
                             THEN SetTags(db.expense_tags, expense_id, TagsIn(Val(expense.tag_ids)))
                             ELSE db.expense_tags
                IN  IF tags_given /\ ~TagsFound(Val(expense.tag_ids))
                    THEN /\ req' = r
                         /\ resp' = [status |-> 404,
                                     body |-> Detail("One or more tags not found")]
                         /\ db' = [db EXCEPT !.expenses[expense_id] = db_expense]
                         /\ now' = now + 1
                         /\ UNCHANGED <<fk_enforced, sess>>
                    ELSE Commit(r, [db EXCEPT !.expenses[expense_id] = db_expense,
                                              !.expense_tags = assoc],
                                200, Row(expense_id, db_expense))

update_expense(expense_id, expense) ==
    /\ Serving
    /\ LET r == [op |-> "update_expense", id |-> expense_id, payload |-> expense]
           update_data == Exclude(expense, {"tag_ids"})
           tags_given == "tag_ids" \in DOMAIN expense /\ expense.tag_ids # None
       IN  IF ~AmountValid(expense)
           THEN Fail(r, 422, "amount")
           ELSE IF expense_id \notin DOMAIN db.expenses
           THEN Fail(r, 404, "Expense not found")
           ELSE IF tags_given /\ ~TagsFound(Val(expense.tag_ids))
           THEN Fail(r, 404, "One or more tags not found")
           ELSE LET db_expense == FlushExpense(db.expenses[expense_id],
                                      SetAttrs(db.expenses[expense_id], update_data))
                    assoc == IF tags_given
                             THEN SetTags(db.expense_tags, expense_id, TagsIn(Val(expense.tag_ids)))
                             ELSE db.expense_tags
                IN  Commit(r, [db EXCEPT !.expenses[expense_id] = db_expense,
                                         !.expense_tags = assoc],
                           200, Row(expense_id, db_expense))

\* The flush of db.delete(db_expense): its rows of the secondary table, then
\* the expense row
FlushDeleteExpense(s, id) ==
    [s EXCEPT
       !.expense_tags = [p \in {x \in DOMAIN @ : x[1] # id} |-> @[p]],
       !.expenses = Remove(@, {id})]

delete_expense(expense_id) ==
    /\ Serving
    /\ LET r == [op |-> "delete_expense", id |-> expense_id]
       IN  IF expense_id \notin DOMAIN db.expenses
           THEN Fail(r, 404, "Expense not found")
           ELSE Commit(r, FlushDeleteExpense(db, expense_id),
                       200, Detail("Expense removed successfully"))

---------------------------------------------------------------------------
\* Budget endpoints

BudgetDefaults ==
    [category_id |-> None, amount |-> None, period |-> None, start_date |-> None]

allowed_periods ==
    {<<"d","a","i","l","y">>, <<"w","e","e","k","l","y">>,
     <<"m","o","n","t","h","l","y">>, <<"y","e","a","r","l","y">>}

\* validate_period returning the value as sent
validate_period_raw(value) == value

\* validate_period: the value it returns for an accepted period
validate_period(value) == Lower(value)

\* validate_period does not raise (BudgetUpdateSchema lets None through)
PeriodValid(payload) ==
    ("period" \in DOMAIN payload /\ payload.period # None)
        => Lower(Val(payload.period)) \in allowed_periods

\* the payload as the validated schema holds it
Validated(payload) ==
    [k \in DOMAIN payload |->
        IF k = "period" /\ payload[k] # None
        THEN Some(validate_period(Val(payload[k])))
        ELSE payload[k]]

get_budgets(user_id, category_id, period) ==
    /\ Serving
    /\ LET r == [op |-> "get_budgets", user_id |-> user_id,
                 category_id |-> category_id, period |-> period]
           budgets_ ==
               {b \in DOMAIN db.budgets :
                   /\ TruthyInt(user_id) => db.budgets[b].user_id = Val(user_id)
                   /\ TruthyInt(category_id) => db.budgets[b].category_id = category_id
                   /\ TruthyStr(period) => db.budgets[b].period = Some(Lower(Val(period)))}
       IN  Return(r, 200, Rows(budgets_))

\* Budget(**budget.model_dump(), user_id=user_id)
NewBudget(budget, user_id) ==
    LET data == Dump(Validated(budget), BudgetDefaults)
    IN  [user_id |-> user_id, category_id |-> data.category_id,
         amount |-> data.amount, period |-> data.period,
         start_date |-> data.start_date]

\* create_budget without the lookup of the owner
create_budget_any_owner(budget, user_id) ==
    /\ Serving
    /\ LET r == [op |-> "create_budget", payload |-> budget, user_id |-> user_id]
           dumped == Dump(budget, BudgetDefaults)
           id == NextId(db.budgets)
           db_budget == NewBudget(budget, user_id)
       IN  IF ~AmountValid(budget) \/ ~PeriodValid(budget) \/ dumped.period = None
           THEN Fail(r, 422, "validation")
           ELSE IF TruthyInt(dumped.category_id) /\ Val(dumped.category_id) \notin DOMAIN db.categories
           THEN Fail(r, 404, "Category not found")
           ELSE Commit(r, [db EXCEPT !.budgets = Insert(@, id, db_budget)],
                       201, Row(id, db_budget))

create_budget(budget, user_id) ==
    /\ Serving
    /\ LET r == [op |-> "create_budget", payload |-> budget, user_id |-> user_id]
           dumped == Dump(budget, BudgetDefaults)
           id == NextId(db.budgets)
           db_budget == NewBudget(budget, user_id)
       IN  IF ~AmountValid(budget) \/ ~PeriodValid(budget) \/ dumped.period = None
           THEN Fail(r, 422, "validation")
           ELSE IF user_id \notin DOMAIN db.users
           THEN Fail(r, 404, "User not found")
           ELSE IF TruthyInt(dumped.category_id) /\ Val(dumped.category_id) \notin DOMAIN db.categories
           THEN Fail(r, 404, "Category not found")
           ELSE Commit(r, [db EXCEPT !.budgets = Insert(@, id, db_budget)],
                       201, Row(id, db_budget))

get_budget(budget_id) ==
    /\ Serving
    /\ LET r == [op |-> "get_budget", id |-> budget_id]
       IN  IF budget_id \notin DOMAIN db.budgets
           THEN Fail(r, 404, "Budget not found")
           ELSE Return(r, 200, Row(budget_id, db.budgets[budget_id]))

update_budget(budget_id, budget) ==
    /\ Serving
    /\ LET r == [op |-> "update_budget", id |-> budget_id, payload |-> budget]
       IN  IF ~AmountValid(budget) \/ ~PeriodValid(budget)
           THEN Fail(r, 422, "validation")
           ELSE IF budget_id \notin DOMAIN db.budgets
           THEN Fail(r, 404, "Budget not found")
           ELSE LET db_budget == SetAttrs(db.budgets[budget_id], Validated(budget))
                IN  Commit(r, [db EXCEPT !.budgets[budget_id] = db_budget],
                           200, Row(budget_id, db_budget))

delete_budget(budget_id) ==
    /\ Serving
    /\ LET r == [op |-> "delete_budget", id |-> budget_id]
       IN  IF budget_id \notin DOMAIN db.budgets
           THEN Fail(r, 404, "Budget not found")
           ELSE Commit(r, [db EXCEPT !.budgets = Remove(@, {budget_id})],
                       200, Detail("Budget removed successfully"))

---------------------------------------------------------------------------
\* The store at start-up and the requests clients send

Food == <<"F","o","o","d">>
Rent == <<"R","e","n","t">>
Car == <<"C","a","r">>
Work == <<"w","o","r","k">>
Fun == <<"f","u","n">>
New == <<"n","e","w">>
Ann == <<"a","n","n">>
Bob == <<"b","o","b">>
Cat == <<"c","a","t">>
MailA == <<"a","@","x">>
MailB == <<"b","@","x">>
MailC == <<"c","@","x">>
Taxi == <<"T","a","x","i">>
Book == <<"B","o","o","k">>
Red == <<"#","f","0","0">>
Pw == <<"p","a","s","s","w","o","r","d">>
Monthly == <<"m","o","n","t","h","l","y">>
Yearly == <<"y","e","a","r","l","y">>
Daily == <<"d","a","i","l","y">>
MONTHLY == <<"M","O","N","T","H","L","Y">>
Weekly_ == <<"W","e","e","k","l","y">>
Hourly == <<"h","o","u","r","l","y">>

\* Base.metadata.create_all on a new database file
EmptyStore ==
    [users |-> EmptyTable, categories |-> EmptyTable, tags |-> EmptyTable,
     expenses |-> EmptyTable, budgets |-> EmptyTable,
     expense_tags |-> EmptyTable]

\* A database file left by earlier runs (every row written at time 0)
SeededStore ==
    [users |-> <<
        [username |-> Some(Ann), email |-> Some(MailA), hashed_password |-> Pw,
         is_active |-> Some(TRUE), created_at |-> 0],
        [username |-> Some(Bob), email |-> Some(MailB), hashed_password |-> Pw,
         is_active |-> Some(TRUE), created_at |-> 0] >>,
     categories |-> <<
        [name |-> Some(Food), description |-> None, icon |-> None, color |-> None],
        [name |-> Some(Rent), description |-> None, icon |-> None, color |-> Some(Red)] >>,
     tags |-> <<
        [name |-> Some(Work), color |-> None],
        [name |-> Some(Fun), color |-> None] >>,
     expenses |-> <<
        [user_id |-> 1, category_id |-> Some(1), description |-> Some(Taxi),
         amount |-> Some(100), expense_date |-> Some(1), receipt_image |-> None,
         created_at |-> 0, updated_at |-> 0],
        [user_id |-> 2, category_id |-> Some(2), description |-> Some(Book),
         amount |-> Some(250), expense_date |-> Some(3), receipt_image |-> None,
         created_at |-> 0, updated_at |-> 0] >>,
     budgets |-> <<
        [user_id |-> 1, category_id |-> Some(1), amount |-> Some(500),
         period |-> Some(Monthly), start_date |-> Some(1)],
        [user_id |-> 2, category_id |-> Some(2), amount |-> Some(500),
         period |-> Some(Yearly), start_date |-> Some(1)],
        [user_id |-> 1, category_id |-> None, amount |-> Some(100),
         period |-> Some(Daily), start_date |-> Some(1)] >>,
     expense_tags |-> (<<1, 1>> :> 0) @@ (<<1, 2>> :> 0) @@ (<<2, 1>> :> 0)]

Sessions == {1, 2}

NoUser == [username |-> None, email |-> None, password |-> <<>>]

Idle == [s \in Sessions |-> [pc |-> "idle", user |-> NoUser, status |-> 0,
                              open |-> FALSE, closes |-> 0, pending |-> None]]

NoReq == [op |-> "none"]

NoResp == [status |-> 0, body |-> Detail("")]

Init ==
    /\ db \in {EmptyStore, SeededStore}
    /\ fk_enforced \in BOOLEAN
    /\ now = 1
    /\ req = NoReq
    /\ resp = NoResp
    /\ sess = Idle

PathIds == {1, 3}

Searches == {None, Some(<<>>), Some(<<"O">>), Some(<<"z">>)}

CategoryCreates == {[name |-> Some(Food)], [name |-> Some(Car), color |-> Some(Red)]}

CategoryUpdates == {[name |-> Some(Rent)], [color |-> Some(Red)], [name |-> None]}

TagCreates == {[name |-> Some(Work)], [name |-> Some(New), color |-> Some(Red)]}

TagUpdates == {[name |-> Some(Fun)], [color |-> Some(Red)], [name |-> None]}

UserCreates ==
    {[username |-> Some(Ann), email |-> Some(MailA), password |-> Pw],
     [username |-> Some(Cat), email |-> Some(MailC), password |-> Pw],
     [username |-> Some(Cat), email |-> Some(MailA), password |-> Pw]}

UserUpdates ==
    {[username |-> Some(Bob)], [email |-> Some(MailA)], [is_active |-> Some(FALSE)]}

ExpenseBase == [description |-> Some(Taxi), amount |-> Some(100), expense_date |-> Some(2)]

ExpenseCreates ==
    {ExpenseBase}
    \cup {ExpenseBase @@ [category_id |-> c] : c \in {Some(0), Some(1), Some(-1), Some(9)}}
    \cup {ExpenseBase @@ [category_id |-> Some(1), tag_ids |-> t] :
             t \in {Some(<<>>), Some(<<1>>), Some(<<1, 9>>), Some(<<1, 1>>)}}
    \cup {[description |-> Some(Taxi), amount |-> Some(0), expense_date |-> Some(2)]}

ExpenseUpdates ==
    {[amount |-> Some(250)], [amount |-> Some(0)], [description |-> None],
     [category_id |-> Some(9)], [category_id |-> None],
     [tag_ids |-> Some(<<2>>)],
     [description |-> Some(Book), tag_ids |-> Some(<<1, 9>>)]}

ExpenseFilters ==
    {[q |-> q, category_id |-> None, user_id |-> None, start_date |-> None,
      end_date |-> None] : q \in Searches}
    \cup {[q |-> None, category_id |-> c, user_id |-> u, start_date |-> d[1],
            end_date |-> d[2]] :
             c \in {None, Some(0), Some(1)}, u \in {None, Some(2)},
             d \in {<<None, None>>, <<Some(3), None>>, <<None, Some(1)>>}}

BudgetBase == [amount |-> Some(100), period |-> Some(MONTHLY), start_date |-> Some(2)]

BudgetCreates ==
    {BudgetBase}
    \cup {BudgetBase @@ [category_id |-> c] : c \in {Some(0), Some(1), Some(9)}}
    \cup {[amount |-> Some(100), period |-> Some(Hourly), start_date |-> Some(2)]}

BudgetUpdates ==
    {[amount |-> Some(250)], [period |-> Some(Weekly_)], [period |-> None],
     [period |-> Some(Hourly)], [category_id |-> Some(9)], [category_id |-> None]}

BudgetFilters ==
    {[user_id |-> f[1], category_id |-> c, period |-> f[2]] :
        c \in {None, Some(0), Some(2)},
        f \in {<<None, None>>, <<Some(1), None>>, <<None, Some(MONTHLY)>>}}

Next ==
    \/ \E q \in Searches : get_categories(q)
    \/ \E c \in CategoryCreates : create_category(c)
    \/ \E id \in PathIds : get_category(id)
    \/ \E id \in PathIds, c \in CategoryUpdates : update_category(id, c)
    \/ \E id \in PathIds : delete_category(id)
    \/ \E q \in Searches : get_tags(q)
    \/ \E t \in TagCreates : create_tag(t)
    \/ \E id \in PathIds : get_tag(id)
    \/ \E id \in PathIds, t \in TagUpdates : update_tag(id, t)
    \/ \E id \in PathIds : delete_tag(id)
    \/ \E f \in ExpenseFilters :
          get_expenses(f.q, f.category_id, f.user_id, f.start_date, f.end_date)
    \/ \E e \in ExpenseCreates : create_expense(e, 1)
    \/ create_expense(ExpenseBase, 3)
    \/ \E id \in PathIds : get_expense(id)
    \/ \E id \in PathIds, e \in ExpenseUpdates : update_expense(id, e)
    \/ \E id \in PathIds : delete_expense(id)
    \/ \E f \in BudgetFilters : get_budgets(f.user_id, f.category_id, f.period)
    \/ \E b \in BudgetCreates : create_budget(b, 1)
    \/ create_budget(BudgetBase, 3)
    \/ \E id \in PathIds : get_budget(id)
    \/ \E id \in PathIds, b \in BudgetUpdates : update_budget(id, b)
    \/ \E id \in PathIds : delete_budget(id)
    \/ \E q \in Searches : get_users(q)
    \/ \E u \in UserCreates : create_user(u)
    \/ \E id \in PathIds : get_user(id)
    \/ \E id \in PathIds, u \in UserUpdates : update_user(id, u)
    \/ \E id \in PathIds : delete_user(id)

Spec == Init /\ [][Next]_vars

---------------------------------------------------------------------------
\* Two create_user requests served at the same time, each in the session
\* get_db opened for it.  A session reads committed rows; its INSERT is
\* flushed and committed in db.commit(), which the engine serializes.

create_user_begin(s, user) ==
    /\ sess[s].pc = "idle"
    /\ sess' = [sess EXCEPT ![s] = [@ EXCEPT !.pc = "username", !.user = user,
                                              !.open = TRUE]]
    /\ UNCHANGED <<db, fk_enforced, now, req, resp>>

create_user_check_username(s) ==
    /\ sess[s].pc = "username"
    /\ sess' = [sess EXCEPT ![s] =
                  IF existing_username(sess[s].user) # {}
                  THEN [@ EXCEPT !.pc = "raised", !.status = 400]
                  ELSE [@ EXCEPT !.pc = "email"]]
    /\ UNCHANGED <<db, fk_enforced, now, req, resp>>

create_user_check_email(s) ==
    /\ sess[s].pc = "email"
    /\ sess' = [sess EXCEPT ![s] =
                  IF existing_email(sess[s].user) # {}
                  THEN [@ EXCEPT !.pc = "raised", !.status = 400]
                  ELSE [@ EXCEPT !.pc = "commit"]]
    /\ UNCHANGED <<db, fk_enforced, now, req, resp>>

create_user_commit(s) ==
    /\ sess[s].pc = "commit"
    /\ LET pending == [db EXCEPT !.users =
                          Insert(@, NextId(db.users), NewUser(sess[s].user))]
       IN  IF IntegrityOK(pending)
           THEN /\ db' = pending
                /\ sess' = [sess EXCEPT ![s] = [@ EXCEPT !.pc = "returned", !.status = 201]]
           ELSE /\ db' = db
                /\ sess' = [sess EXCEPT ![s] =
                              [@ EXCEPT !.pc = "raised", !.status = 500,
                                        !.pending = Some(NewUser(sess[s].user))]]
    /\ UNCHANGED <<fk_enforced, now, req, resp>>

\* a generator that stops at its yield only on a normal return of the handler:
\* get_db without try/finally
get_db_close_leak(s) ==
    /\ sess[s].pc = "returned"
    /\ sess' = [sess EXCEPT ![s] = [@ EXCEPT !.pc = "closed", !.open = FALSE,
                                              !.closes = @ + 1, !.pending = None]]
    /\ UNCHANGED <<db, fk_enforced, now, req, resp>>

\* the finally block of get_db: db.close() runs when the handler returned and
\* when it raised, rolls back the open transaction and empties the session
get_db_close(s) ==
    /\ sess[s].pc \in {"returned", "raised"}
    /\ sess' = [sess EXCEPT ![s] = [@ EXCEPT !.pc = "closed", !.open = FALSE,
                                              !.closes = @ + 1, !.pending = None]]
    /\ UNCHANGED <<db, fk_enforced, now, req, resp>>

NextRace ==
    \/ \E s \in Sessions, u \in UserCreates : create_user_begin(s, u)
    \/ \E s \in Sessions : create_user_check_username(s)
    \/ \E s \in Sessions : create_user_check_email(s)
    \/ \E s \in Sessions : create_user_commit(s)
    \/ \E s \in Sessions : get_db_close(s)

SpecRace == Init /\ [][NextRace]_vars

\* a request that entered its handler runs to the end of the handler, and the
\* framework then resumes the get_db generator; arrival of a request is not
\* forced
Running ==
    \A s \in Sessions :
       /\ WF_vars(create_user_check_username(s))
       /\ WF_vars(create_user_check_email(s))
       /\ WF_vars(create_user_commit(s))
       /\ WF_vars(get_db_close(s))

SpecSession == SpecRace /\ Running

---------------------------------------------------------------------------
\* Properties.  Every step of Spec serves one request: req' is the request,
\* resp' its response, db the store before and db' the store after.

Weekly == <<"w","e","e","k","l","y">>

Deleted(op) == req'.op = op /\ resp'.status = 200

\* C1: delete_category deletes every Budget that referenced the category and
\* leaves every other Budget untouched.
C1_BudgetsCascade ==
    [][Deleted("delete_category") =>
          \A b \in DOMAIN db.budgets :
             IF db.budgets[b].category_id = Some(req'.id)
             THEN b \notin DOMAIN db'.budgets
             ELSE b \in DOMAIN db'.budgets /\ db'.budgets[b] = db.budgets[b]]_vars

\* C2 as stated: delete_category deletes no Expense; an Expense that
\* referenced the category is still there with category_id null and every
\* other field and its tags unchanged.
C2_ExpensesKeptAllFields ==
    [][Deleted("delete_category") =>
          /\ DOMAIN db'.expenses = DOMAIN db.expenses
          /\ db'.expense_tags = db.expense_tags
          /\ \A e \in DOMAIN db.expenses :
                db.expenses[e].category_id = Some(req'.id) =>
                   db'.expenses[e] = [db.expenses[e] EXCEPT !.category_id = None]]_vars

\* C2 amended: delete_category deletes no Expense; an Expense that referenced
\* the category is still there with category_id null, updated_at refreshed to
\* the time of the delete, and every other field and its tags unchanged; the
\* other Expenses are untouched.
C2_ExpensesKept ==
    [][Deleted("delete_category") =>
          /\ DOMAIN db'.expenses = DOMAIN db.expenses
          /\ db'.expense_tags = db.expense_tags
          /\ \A e \in DOMAIN db.expenses :
                IF db.expenses[e].category_id = Some(req'.id)
                THEN db'.expenses[e] =
                        [db.expenses[e] EXCEPT !.category_id = None, !.updated_at = now]
                ELSE db'.expenses[e] = db.expenses[e]]_vars

\* an expense of the deleted category survived the delete that just ran
C2_Witness ==
    /\ req.op = "delete_category" /\ resp.status = 200
    /\ \E e \in DOMAIN db.expenses :
          /\ db.expenses[e].category_id = None
          /\ db.expenses[e].updated_at = now - 1
          /\ db.expenses[e].created_at < now - 1
          /\ Expense_tags(db, e) # {}

\* C3: delete_user removes the user, every Expense and Budget the user owned
\* and the tag associations of those expenses, and nothing of another user.
C3_UserCascade ==
    [][Deleted("delete_user") =>
          LET u == req'.id
              gone == {e \in DOMAIN db.expenses : db.expenses[e].user_id = u}
          IN  /\ u \notin DOMAIN db'.users
              /\ \A v \in DOMAIN db.users \ {u} :
                    v \in DOMAIN db'.users /\ db'.users[v] = db.users[v]
              /\ \A e \in DOMAIN db.expenses :
                    IF e \in gone
                    THEN e \notin DOMAIN db'.expenses
                    ELSE e \in DOMAIN db'.expenses /\ db'.expenses[e] = db.expenses[e]
              /\ \A b \in DOMAIN db.budgets :
                    IF db.budgets[b].user_id = u
                    THEN b \notin DOMAIN db'.budgets
                    ELSE b \in DOMAIN db'.budgets /\ db'.budgets[b] = db.budgets[b]
              /\ \A p \in DOMAIN db.expense_tags :
                    IF p[1] \in gone
                    THEN p \notin DOMAIN db'.expense_tags
                    ELSE p \in DOMAIN db'.expense_tags
                         /\ db'.expense_tags[p] = db.expense_tags[p]]_vars

\* user 1 of the seeded store was deleted with its expense, budgets and tag
\* rows; the expense, budget and tag row of user 2 are still there
C3_Witness ==
    /\ req.op = "delete_user" /\ req.id = 1 /\ resp.status = 200
    /\ DOMAIN db.users = {2}
    /\ DOMAIN db.expenses = {2} /\ DOMAIN db.budgets = {2}
    /\ DOMAIN db.expense_tags = {<<2, 1>>}

\* the request carries a tag_ids list with an id that matches no Tag
UnknownTagSent(r) ==
    /\ "tag_ids" \in DOMAIN r.payload
    /\ r.payload.tag_ids # None
    /\ \E t \in Range(Val(r.payload.tag_ids)) : t \notin DOMAIN db.tags

\* C4: create_expense with a tag_ids list holding an id of no Tag answers
\* not-found and writes nothing.
C4_UnknownTagRejected ==
    [][(req'.op = "create_expense" /\ AmountValid(req'.payload) /\ UnknownTagSent(req'))
          => resp'.status = 404 /\ db' = db]_vars

\* tag_ids = [1, 9] with tag 1 present, owner and category present: rejected
\* for the tags
C4_Witness ==
    /\ req.op = "create_expense" /\ resp.status = 404
    /\ resp.body = Detail("One or more tags not found")
    /\ "tag_ids" \in DOMAIN req.payload
    /\ req.payload.tag_ids = Some(<<1, 9>>)
    /\ 1 \in DOMAIN db.tags /\ 9 \notin DOMAIN db.tags

\* C5: create_expense and create_budget with an existing owner and a non-null
\* category_id of no Category answer not-found and create nothing.
C5_UnknownCategoryRejected ==
    [][(/\ req'.op \in {"create_expense", "create_budget"}
        /\ AmountValid(req'.payload) /\ PeriodValid(req'.payload)
        /\ req'.user_id \in DOMAIN db.users
        /\ "category_id" \in DOMAIN req'.payload
        /\ req'.payload.category_id # None
        /\ Val(req'.payload.category_id) \notin DOMAIN db.categories)
          => resp'.status = 404 /\ db' = db]_vars

\* C6: usernames, emails, category names and tag names are unique in every
\* reachable store.
C6_UniqueFields ==
    /\ \A i, j \in DOMAIN db.users :
          i # j => /\ db.users[i].username # db.users[j].username
                   /\ db.users[i].email # db.users[j].email
    /\ \A i, j \in DOMAIN db.categories :
          i # j => db.categories[i].name # db.categories[j].name
    /\ \A i, j \in DOMAIN db.tags : i # j => db.tags[i].name # db.tags[j].name

\* an update asked for a name another row holds and the commit refused it
C6_Witness ==
    /\ req.op = "update_category" /\ resp.status = 500
    /\ "name" \in DOMAIN req.payload
    /\ \E c \in DOMAIN db.categories :
          c # req.id /\ db.categories[c].name = req.payload.name

\* the unique field of the create request is held by a row of the store
Duplicates(r) ==
    \/ /\ r.op = "create_category"
       /\ \E c \in DOMAIN db.categories : db.categories[c].name = r.payload.name
    \/ /\ r.op = "create_tag"
       /\ \E t \in DOMAIN db.tags : db.tags[t].name = r.payload.name
    \/ /\ r.op = "create_user"
       /\ \E u \in DOMAIN db.users :
             \/ db.users[u].username = r.payload.username
             \/ db.users[u].email = r.payload.email

\* C7: a create_category, create_tag or create_user whose unique field is
\* held by an existing row answers 400 and writes nothing; one whose unique
\* fields are free answers 201 and adds exactly its row.
C7_DuplicateCreate ==
    [][req'.op \in {"create_category", "create_tag", "create_user"} =>
          IF Duplicates(req')
          THEN resp'.status = 400 /\ db' = db
          ELSE /\ resp'.status = 201
               /\ resp'.body.kind = "row"
               /\ LET t == CASE req'.op = "create_category" -> "categories"
                             [] req'.op = "create_tag" -> "tags"
                             [] OTHER -> "users"
                  IN  /\ db' = [db EXCEPT ![t] = Insert(@, resp'.body.id, resp'.body.row)]
                      /\ resp'.body.id \notin DOMAIN db[t]]_vars

\* "Food" created twice on a new database: the second answer is a conflict
C7_Witness ==
    /\ req.op = "create_category" /\ resp.status = 400
    /\ req.payload.name = Some(Food)
    /\ DOMAIN db.categories = {1} /\ db.categories[1].name = Some(Food)
    /\ now = 3

\* the rows create_user wrote since the behaviour began
Created == {u \in DOMAIN db.users : db.users[u].created_at = now}

\* username and email of the request are held by no row older than the race
Free(user) ==
    \A u \in DOMAIN db.users \ Created :
       /\ db.users[u].username # user.username
       /\ db.users[u].email # user.email

\* C8: of two concurrent create_user requests with the same (free) username,
\* under every interleaving exactly one answers 201 and the other fails on
\* uniqueness (400 from a pre-check or 500 from the commit); no two users
\* ever share a username, and a failed request leaves no row.
C8_RaceOneWinner ==
    /\ \A i, j \in DOMAIN db.users : i # j => db.users[i].username # db.users[j].username
    /\ Cardinality(Created) = Cardinality({s \in Sessions : sess[s].status = 201})
    /\ (/\ \A s \in Sessions : sess[s].pc = "closed" /\ Free(sess[s].user)
        /\ sess[1].user.username = sess[2].user.username)
          => \E s \in Sessions :
                /\ sess[s].status = 201
                /\ sess[3 - s].status \in {400, 500}
                /\ \E u \in Created : db.users[u].username = sess[s].user.username

\* both requests passed both pre-checks before either committed: the second
\* commit hit the unique constraint
C8_Witness ==
    /\ \A s \in Sessions : sess[s].pc = "closed" /\ Free(sess[s].user)
    /\ sess[1].user.username = sess[2].user.username
    /\ {sess[1].status, sess[2].status} = {201, 500}
    /\ Cardinality(Created) = 1

\* C9: a list operation given a non-empty search term that matches no row
\* answers not-found, never an empty collection; without a search term it
\* answers 200 (with an empty collection when nothing matches).
C9_EmptySearchNotFound ==
    req.op \in {"get_categories", "get_tags", "get_users", "get_expenses"} =>
       IF TruthyStr(req.q)
       THEN \/ resp.status = 404
            \/ resp.status = 200 /\ resp.body.ids # {}
       ELSE resp.status = 200

\* C10: every stored Budget has one of the four lowercase periods.
C10_PeriodCanonical ==
    \A b \in DOMAIN db.budgets :
       db.budgets[b].period \in {Some(Daily), Some(Weekly), Some(Monthly), Some(Yearly)}

\* a period sent in mixed case was stored by update_budget in lowercase
C10_Witness ==
    /\ req.op = "update_budget" /\ resp.status = 200
    /\ "period" \in DOMAIN req.payload
    /\ req.payload.period = Some(Weekly_)
    /\ db.budgets[req.id].period = Some(Weekly)

\* the table an update handler writes
TableOf(op) ==
    CASE op = "update_user" -> "users"
      [] op = "update_category" -> "categories"
      [] op = "update_tag" -> "tags"
      [] op = "update_expense" -> "expenses"
      [] op = "update_budget" -> "budgets"

Updates == {"update_user", "update_category", "update_tag", "update_expense", "update_budget"}

\* A successful update leaves the columns in `free` aside, every column of the
\* targeted row that the payload omits, every other row of the table, every
\* other table, and the tag rows of every expense whose tag_ids it did not carry
OnlySuppliedChange(free) ==
    (req'.op \in Updates /\ resp'.status = 200) =>
       LET t == TableOf(req'.op)
           id == req'.id
           tagged == req'.op = "update_expense" /\ "tag_ids" \in DOMAIN req'.payload
                     /\ req'.payload.tag_ids # None
       IN  /\ \A other \in {"users", "categories", "tags", "expenses", "budgets"} \ {t} :
                db'[other] = db[other]
           /\ DOMAIN db'[t] = DOMAIN db[t]
           /\ \A i \in DOMAIN db[t] \ {id} : db'[t][i] = db[t][i]
           /\ \A k \in DOMAIN db[t][id] \ (DOMAIN req'.payload \cup free) :
                db'[t][id][k] = db[t][id][k]
           /\ \A pr \in DOMAIN db.expense_tags \cup DOMAIN db'.expense_tags :
                (~tagged \/ pr[1] # id) =>
                   /\ pr \in DOMAIN db.expense_tags /\ pr \in DOMAIN db'.expense_tags
                   /\ db'.expense_tags[pr] = db.expense_tags[pr]

\* C11 as stated: a successful update changes only the fields of the targeted
\* row that the payload carries, and no other row of any table.
C11_OnlyPayloadFields == [][OnlySuppliedChange({})]_vars

\* C11 amended: a successful update changes only the fields of the targeted
\* row that the payload carries and, for update_expense, the server-assigned
\* updated_at, which is set to the time of the update when a column changed;
\* no other row of any table changes.
C11_OnlyPayloadFieldsAndStamp ==
    [][/\ OnlySuppliedChange({"updated_at"})
       /\ (req'.op = "update_expense" /\ resp'.status = 200) =>
             db'.expenses[req'.id].updated_at \in {db.expenses[req'.id].updated_at, now}]_vars

\* update_budget with only amount: budget 1 of the seeded store has the new
\* amount and its period, start_date, category and owner
C11_Witness ==
    /\ req.op = "update_budget" /\ resp.status = 200 /\ req.id = 1
    /\ DOMAIN req.payload = {"amount"}
    /\ db.budgets[1] = [user_id |-> 1, category_id |-> Some(1), amount |-> Some(250),
                        period |-> Some(Monthly), start_date |-> Some(1)]

\* every Expense and every Budget is owned by a User of the store
OwnersExist ==
    /\ \A e \in DOMAIN db.expenses : db.expenses[e].user_id \in DOMAIN db.users
    /\ \A b \in DOMAIN db.budgets : db.budgets[b].user_id \in DOMAIN db.users

\* C12: in every reachable state every Expense and Budget has the id of an
\* existing User as user_id; create_expense and create_budget for a user_id of
\* no User answer not-found and create nothing; no request changes the owner
\* of a row.
C12_OwnerExists ==
    /\ []OwnersExist
    /\ [][/\ (/\ req'.op \in {"create_expense", "create_budget"}
              /\ AmountValid(req'.payload) /\ PeriodValid(req'.payload)
              /\ req'.user_id \notin DOMAIN db.users)
                => resp'.status = 404 /\ db' = db
          /\ \A e \in DOMAIN db.expenses \cap DOMAIN db'.expenses :
                db'.expenses[e].user_id = db.expenses[e].user_id
          /\ \A b \in DOMAIN db.budgets \cap DOMAIN db'.budgets :
                db'.budgets[b].user_id = db.budgets[b].user_id]_vars

\* a create for user 3, who does not exist, was refused in a store that holds
\* users, expenses and budgets
C12_Witness ==
    /\ req.op \in {"create_expense", "create_budget"} /\ req.user_id = 3
    /\ resp = [status |-> 404, body |-> Detail("User not found")]
    /\ DOMAIN db.users = {1, 2}
    /\ DOMAIN db.expenses # {} /\ DOMAIN db.budgets # {}

\* the update request carries a non-null category_id that matches no Category
UnknownCategorySent(r) ==
    /\ "category_id" \in DOMAIN r.payload
    /\ r.payload.category_id # None
    /\ Val(r.payload.category_id) \notin DOMAIN db.categories

\* C13: update_expense and update_budget given a category_id of no Category,
\* or (expenses) a tag_ids list with an id of no Tag, answer not-found and
\* the stored row keeps its category and tags.
C13_UpdateChecksForeignKeys ==
    [][(/\ req'.op \in {"update_expense", "update_budget"}
        /\ AmountValid(req'.payload) /\ PeriodValid(req'.payload)
        /\ req'.id \in DOMAIN db[TableOf(req'.op)]
        /\ UnknownCategorySent(req') \/ (req'.op = "update_expense" /\ UnknownTagSent(req')))
          => /\ resp'.status = 404
             /\ db'[TableOf(req'.op)][req'.id].category_id
                   = db[TableOf(req'.op)][req'.id].category_id
             /\ db'.expense_tags = db.expense_tags]_vars

\* every association row joins an Expense and a Tag of the store
AssociationsResolve ==
    \A p \in DOMAIN db.expense_tags :
       p[1] \in DOMAIN db.expenses /\ p[2] \in DOMAIN db.tags

\* C14: delete_tag removes the association rows of the tag and nothing else
\* but the tag: every Expense is still there with all its fields and its other
\* tags; and no association row ever references a missing Tag or Expense.
C14_DeleteTag ==
    /\ []AssociationsResolve
    /\ [][Deleted("delete_tag") =>
             /\ db'.tags = Remove(db.tags, {req'.id})
             /\ db'.expenses = db.expenses
             /\ db'.users = db.users /\ db'.categories = db.categories
             /\ db'.budgets = db.budgets
             /\ \A e \in DOMAIN db.expenses :
                   Expense_tags(db', e) = Expense_tags(db, e) \ {req'.id}
             /\ \A p \in DOMAIN db'.expense_tags :
                   p \in DOMAIN db.expense_tags
                   /\ db'.expense_tags[p] = db.expense_tags[p]]_vars

\* tag 1 of the seeded store was deleted: expense 1 keeps tag 2 and its row as
\* written, expense 2 has no tag left
C14_Witness ==
    /\ req.op = "delete_tag" /\ req.id = 1 /\ resp.status = 200
    /\ 1 \notin DOMAIN db.tags
    /\ DOMAIN db.expenses = {1, 2}
    /\ db.expenses[1].updated_at = 0
    /\ Expense_tags(db, 1) = {2} /\ Expense_tags(db, 2) = {}

\* C15: every successful update_expense that changes the expense (a column or
\* only its tag set) sets updated_at to the time of the update and keeps
\* created_at.
C15_UpdatedAtRefreshed ==
    [][(/\ req'.op = "update_expense" /\ resp'.status = 200
        /\ \/ db'.expenses[req'.id] # db.expenses[req'.id]
           \/ Expense_tags(db', req'.id) # Expense_tags(db, req'.id))
          => /\ db'.expenses[req'.id].updated_at = now
             /\ db'.expenses[req'.id].created_at = db.expenses[req'.id].created_at]_vars

\* the session of a request is open from get_db's SessionLocal() to its close
SessionState ==
    /\ Cardinality(Created) = Cardinality({s \in Sessions : sess[s].status = 201})
    /\ \A s \in Sessions :
       /\ sess[s].open <=> sess[s].pc \in {"username", "email", "commit", "returned", "raised"}
       /\ sess[s].closes = (IF sess[s].pc = "closed" THEN 1 ELSE 0)
       /\ sess[s].pc = "closed" => sess[s].pending = None
       /\ sess[s].pc \in {"returned", "raised", "closed"} => sess[s].status \in {201, 400, 500}

\* C16: the session get_db opens for a request is closed exactly once on
\* every exit path (normal return, HTTPException, exception raised by commit):
\* every request that started eventually has its session closed, no session
\* is closed twice or left open after its close, and what a failed request
\* added is discarded and never stored.
C16_SessionClosed ==
    /\ []SessionState
    /\ \A s \in Sessions : (sess[s].pc # "idle") ~> (sess[s].pc = "closed")

\* a commit raised on the unique constraint and the session was closed,
\* while the other request returned normally and was closed too
C16_Witness ==
    \E s \in Sessions :
       /\ sess[s].pc = "closed" /\ sess[s].status = 500
       /\ sess[s].closes = 1 /\ ~sess[s].open /\ sess[s].pending = None
       /\ sess[3 - s].pc = "closed" /\ sess[3 - s].status = 201
       /\ sess[3 - s].closes = 1
       /\ Cardinality(Created) = 1

\* C17: an update_expense that does not answer 200 (unknown expense, unknown
\* tag, rejected payload, failed commit) leaves the store as it was: none of
\* the fields assigned before the tag check is persisted, and the expense's
\* associations are unchanged.
C17_FailedUpdateWritesNothing ==
    [][(req'.op = "update_expense" /\ resp'.status # 200) => db' = db]_vars

\* a payload with a new description and an unknown tag was answered 404 and
\* the expense still has its description and both of its tags
C17_Witness ==
    /\ req.op = "update_expense" /\ req.id = 1
    /\ req.payload = [description |-> Some(Book), tag_ids |-> Some(<<1, 9>>)]
    /\ resp = [status |-> 404, body |-> Detail("One or more tags not found")]
    /\ 1 \in DOMAIN db.expenses
    /\ db.expenses[1].description = Some(Taxi)
    /\ Expense_tags(db, 1) = {1, 2}

\* C18: get_expenses without a search term answers exactly the stored
\* expenses that satisfy every supplied filter (category_id and user_id equal
\* to the given value, whatever integer it is; expense_date within the
\* inclusive bounds), and get_budgets answers exactly the budgets matching
\* the supplied user_id, category_id and lower-cased period.
C18_FiltersExact ==
    /\ (req.op = "get_expenses" /\ req.q = None) =>
          /\ resp.status = 200
          /\ resp.body = Rows({e \in DOMAIN db.expenses :
                /\ req.category_id # None => db.expenses[e].category_id = req.category_id
                /\ req.user_id # None => db.expenses[e].user_id = Val(req.user_id)
                /\ req.start_date # None =>
                      Val(db.expenses[e].expense_date) >= Val(req.start_date)
                /\ req.end_date # None =>
                      Val(db.expenses[e].expense_date) <= Val(req.end_date)})
    /\ req.op = "get_budgets" =>
          /\ resp.status = 200
          /\ resp.body = Rows({b \in DOMAIN db.budgets :
                /\ req.user_id # None => db.budgets[b].user_id = Val(req.user_id)
                /\ req.category_id # None => db.budgets[b].category_id = req.category_id
                /\ req.period # None => db.budgets[b].period = Some(Lower(Val(req.period)))})

====
